---------------------------- MODULE Spec2Model ----------------------------
(***************************************************************************)
(* A model of validate_lws.py: a script that reads one JSON document from  *)
(* standard input, checks either its "outputs" or its "transactions" list  *)
(* item by item, prints one line per item and exits with status 0 or 1.    *)
(*                                                                         *)
(* Characters are Unicode code points (integers), strings are sequences of *)
(* code points.  Standard output is UTF-8 text: a string that holds a       *)
(* surrogate code point (json.load builds one from "\ud800") cannot be     *)
(* written to it.                                                          *)
(***************************************************************************)
EXTENDS Integers, Sequences, FiniteSets, TLC

VARIABLES stdin, data, pc, i, out, exc, exitCode, run, prev

vars == <<stdin, data, pc, i, out, exc, exitCode, run, prev>>

(***************************************************************************)
(* Bounds of the model.                                                    *)
(***************************************************************************)
\* longest "outputs" / "transactions" array drawn for the input document
MaxItems == 3

(***************************************************************************)
(* JSON values as json.load builds them: None, bool, int, str, list, dict. *)
(* A dict is the sequence of its key/value pairs in insertion order.       *)
(***************************************************************************)
JNull == [t |-> "null"]
JBool(b) == [t |-> "bool", b |-> b]
JNum(n) == [t |-> "num", n |-> n]
JStr(s) == [t |-> "str", s |-> s]
JArr(a) == [t |-> "arr", a |-> a]
JObj(m) == [t |-> "obj", m |-> m]
Pair(k, v) == [k |-> k, v |-> v]

\* the text on standard input that is not well-formed JSON
Malformed == [t |-> "malformed"]
\* a variable of the script that is not bound yet
Unbound == [t |-> "unbound"]

\* the string literals of the script, as code points
KeyOutputs == <<111, 117, 116, 112, 117, 116, 115>>
KeyTransactions == <<116, 114, 97, 110, 115, 97, 99, 116, 105, 111, 110, 115>>
KeyTxPubKey == <<116, 120, 95, 112, 117, 98, 95, 107, 101, 121>>
KeySpentOutputs == <<115, 112, 101, 110, 116, 95, 111, 117, 116, 112, 117, 116, 115>>

\* the length validate_hex is called with
HexLen == 64

(***************************************************************************)
(* The Python operations the script applies to the parsed value.  Each     *)
(* returns [raise |-> "" , val |-> v] or [raise |-> <exception type>].     *)
(***************************************************************************)
Ok(v) == [raise |-> "", val |-> v]
Raise(e) == [raise |-> e]

HasKey(m, k) == \E j \in 1..Len(m) : m[j].k = k
Lookup(m, k) == m[CHOOSE j \in 1..Len(m) : m[j].k = k].v

IsSubstring(p, s) ==
    \E k \in 0..(Len(s) - Len(p)) : SubSeq(s, k + 1, k + Len(p)) = p

\* k in v
PyIn(k, v) ==
    CASE v.t = "obj" -> Ok(HasKey(v.m, k))
      [] v.t = "arr" -> Ok(\E j \in 1..Len(v.a) : v.a[j] = JStr(k))
      [] v.t = "str" -> Ok(IsSubstring(k, v.s))
      [] OTHER -> Raise("TypeError")

\* v[k], k a string
PyGetItem(v, k) ==
    CASE v.t = "obj" -> IF HasKey(v.m, k) THEN Ok(Lookup(v.m, k)) ELSE Raise("KeyError")
      [] OTHER -> Raise("TypeError")

\* len(v)
PyLen(v) ==
    CASE v.t = "obj" -> Ok(Len(v.m))
      [] v.t = "arr" -> Ok(Len(v.a))
      [] v.t = "str" -> Ok(Len(v.s))
      [] OTHER -> Raise("TypeError")

\* the items enumerate(v) yields, for a v that has a length
PyIter(v) ==
    CASE v.t = "obj" -> [j \in 1..Len(v.m) |-> JStr(v.m[j].k)]
      [] v.t = "arr" -> v.a
      [] v.t = "str" -> [j \in 1..Len(v.s) |-> JStr(<<v.s[j]>>)]
      [] OTHER -> <<>>

\* v.get(k): only a dict has the method
PyGet(v, k) ==
    CASE v.t = "obj" -> IF HasKey(v.m, k) THEN Ok(Lookup(v.m, k)) ELSE Ok(JNull)
      [] OTHER -> Raise("AttributeError")

\* PyTruthy as "pubkey is not None" would decide it
PyTruthy_NoneOnly(v) == v.t # "null"

\* bool(v)
PyTruthy(v) ==
    CASE v.t = "null" -> FALSE
      [] v.t = "bool" -> v.b
      [] v.t = "num" -> v.n # 0
      [] v.t = "str" -> Len(v.s) > 0
      [] v.t = "arr" -> Len(v.a) > 0
      [] v.t = "obj" -> Len(v.m) > 0

\* a character of the class [0-9a-fA-F]
IsHexChar(c) == (c >= 48 /\ c <= 57) \/ (c >= 97 /\ c <= 102) \/ (c >= 65 /\ c <= 70)

\* re.match(r'^[0-9a-fA-F]+$', s) finds a match: "+" takes one or more class
\* characters from the start, and "$" matches at the end of the string and
\* also just before a newline that is the string's last character
ReMatch(s) ==
    \E n \in 1..Len(s) :
        /\ \A k \in 1..n : IsHexChar(s[k])
        /\ \/ n = Len(s)
           \/ n = Len(s) - 1 /\ s[Len(s)] = 10

validate_hex(s, length) ==
    IF PyLen(s).raise # "" THEN Raise("TypeError")
    ELSE IF PyLen(s).val # length THEN Ok(FALSE)
    ELSE IF s.t # "str" THEN Raise("TypeError")
    ELSE Ok(ReMatch(s.s))

\* s.encode('utf-8'), as a sequence of bytes
RECURSIVE Utf8(_)
Utf8(s) ==
    IF s = <<>> THEN <<>>
    ELSE LET c == Head(s)
             b == IF c < 128 THEN <<c>>
                  ELSE IF c < 2048 THEN <<192 + (c \div 64), 128 + (c % 64)>>
                  ELSE IF c < 65536
                       THEN <<224 + (c \div 4096), 128 + ((c \div 64) % 64), 128 + (c % 64)>>
                  ELSE <<240 + (c \div 262144), 128 + ((c \div 4096) % 64),
                         128 + ((c \div 64) % 64), 128 + (c % 64)>>
         IN b \o Utf8(Tail(s))

\* bytes.hex(): two lowercase hexadecimal digits per byte
HexDigit(n) == IF n < 10 THEN 48 + n ELSE 87 + n
RECURSIVE BytesHex(_)
BytesHex(b) ==
    IF b = <<>> THEN <<>>
    ELSE <<HexDigit(Head(b) \div 16), HexDigit(Head(b) % 16)>> \o BytesHex(Tail(b))

\* a code point UTF-8 cannot encode
IsSurrogate(c) == c >= 55296 /\ c <= 57343

\* print writes the text of v to standard output without UnicodeEncodeError
PyPrintable(v) == v.t = "str" => \A k \in 1..Len(v.s) : ~IsSurrogate(v.s[k])

\* pubkey.encode('utf-8').hex(): only a str has the method encode
PyEncodeHex(v) ==
    IF v.t = "str" THEN Ok(BytesHex(Utf8(v.s))) ELSE Raise("AttributeError")


(***************************************************************************)
(* The lines the script prints.  A line is the f-string of the source with *)
(* the values it was formatted with.                                       *)
(***************************************************************************)
L_CheckOutputs(n) == [text |-> "Checking {n} outputs...", n |-> n]
L_MissingKey(k) == [text |-> "Error: Output {i} missing tx_pub_key", i |-> k]
L_InvalidKey(k, v, n) ==
    [text |-> "Error: Output {i} has invalid tx_pub_key: '{pubkey}' len={n}",
     i |-> k, pubkey |-> v, n |-> n]
L_HexRepr(h) == [text |-> "Hex repr: {hex}", hex |-> h]
L_ValidKey(k, v) == [text |-> "Output {i} tx_pub_key valid: {pubkey}", i |-> k, pubkey |-> v]
L_CheckTransactions(n) == [text |-> "Checking {n} transactions...", n |-> n]
L_MissingSpent(k) == [text |-> "Error: Transaction {i} missing spent_outputs", i |-> k]
L_HasSpent(k, n) == [text |-> "Transaction {i} has spent_outputs ({n} items)", i |-> k, n |-> n]
L_Success == [text |-> "Validation Successful"]
L_ValidationError(e) == [text |-> "Validation Error: {e}", e |-> e]

(***************************************************************************)
(* The steps of the script as functions of what they read.                 *)
(***************************************************************************)
\* Selected with the two branches in the other order
Selected_TransactionsFirst(d) ==
    IF PyIn(KeyTransactions, d).raise # "" THEN Raise(PyIn(KeyTransactions, d).raise)
    ELSE IF PyIn(KeyTransactions, d).val THEN Ok("transactions")
    ELSE IF PyIn(KeyOutputs, d).raise # "" THEN Raise(PyIn(KeyOutputs, d).raise)
    ELSE IF PyIn(KeyOutputs, d).val THEN Ok("outputs")
    ELSE Ok("none")

\* the branch the if / elif chain takes
Selected(d) ==
    IF PyIn(KeyOutputs, d).raise # "" THEN Raise(PyIn(KeyOutputs, d).raise)
    ELSE IF PyIn(KeyOutputs, d).val THEN Ok("outputs")
    ELSE IF PyIn(KeyTransactions, d).raise # "" THEN Raise(PyIn(KeyTransactions, d).raise)
    ELSE IF PyIn(KeyTransactions, d).val THEN Ok("transactions")
    ELSE Ok("none")

SelectedKey(d) == IF Selected(d).val = "outputs" THEN KeyOutputs ELSE KeyTransactions

\* what one iteration prints and how it ends: "next" (the loop goes on),
\* "exit" (sys.exit(1)) or "raise" (an exception leaves the try block)
Step(lines, end, e) == [lines |-> lines, end |-> end, exc |-> e]

\* OutputStep without the sys.exit(1) that follows the missing-field line
OutputStep_NoExit(k, el) ==
    LET got == PyGet(el, KeyTxPubKey) IN
    IF got.raise # "" THEN Step(<<>>, "raise", got.raise)
    ELSE LET pubkey == got.val IN
         IF ~PyTruthy(pubkey) THEN Step(<<L_MissingKey(k)>>, "next", "")
         ELSE LET vh == validate_hex(pubkey, HexLen) IN
              IF vh.raise # "" THEN Step(<<>>, "raise", vh.raise)
              ELSE IF ~vh.val
                   THEN LET line == L_InvalidKey(k, pubkey, PyLen(pubkey).val)
                            hex == PyEncodeHex(pubkey) IN
                        IF ~PyPrintable(pubkey) THEN Step(<<>>, "raise", "UnicodeEncodeError")
                        ELSE IF hex.raise # "" THEN Step(<<line>>, "raise", hex.raise)
                        ELSE Step(<<line, L_HexRepr(hex.val)>>, "exit", "")
              ELSE Step(<<L_ValidKey(k, pubkey)>>, "next", "")

\* one iteration of the loop over data['outputs']
OutputStep(k, el) ==
    LET got == PyGet(el, KeyTxPubKey) IN
    IF got.raise # "" THEN Step(<<>>, "raise", got.raise)
    ELSE LET pubkey == got.val IN
         IF ~PyTruthy(pubkey) THEN Step(<<L_MissingKey(k)>>, "exit", "")
         ELSE LET vh == validate_hex(pubkey, HexLen) IN
              IF vh.raise # "" THEN Step(<<>>, "raise", vh.raise)
              ELSE IF ~vh.val
                   THEN LET line == L_InvalidKey(k, pubkey, PyLen(pubkey).val)
                            hex == PyEncodeHex(pubkey) IN
                        IF ~PyPrintable(pubkey) THEN Step(<<>>, "raise", "UnicodeEncodeError")
                        ELSE IF hex.raise # "" THEN Step(<<line>>, "raise", hex.raise)
                        ELSE Step(<<line, L_HexRepr(hex.val)>>, "exit", "")
              ELSE Step(<<L_ValidKey(k, pubkey)>>, "next", "")

\* one iteration of the loop over data['transactions']
TransactionStep(k, tx) ==
    LET has == PyIn(KeySpentOutputs, tx) IN
    IF has.raise # "" THEN Step(<<>>, "raise", has.raise)
    ELSE IF ~has.val THEN Step(<<L_MissingSpent(k)>>, "exit", "")
    ELSE LET got == PyGetItem(tx, KeySpentOutputs) IN
         IF got.raise # "" THEN Step(<<>>, "raise", got.raise)
         ELSE LET n == PyLen(got.val) IN
              IF n.raise # "" THEN Step(<<>>, "raise", n.raise)
              ELSE Step(<<L_HasSpent(k, n.val)>>, "next", "")

(***************************************************************************)
(* The input documents.                                                    *)
(***************************************************************************)
Str(n, body, last) == [k \in 1..n |-> IF k = n THEN last ELSE body]
SeqsUpTo(S, n) == UNION {[1..k -> S] : k \in 0..n}

StrAB == <<97, 98>>
StrXYZ == <<120, 121, 122>>
Valid64 == Str(HexLen, 97, 97)
Mixed64 == Str(HexLen, 70, 57)
Newline64 == Str(HexLen, 97, 10)

\* strings of 63, 64 and 65 characters and short ones; hexadecimal digits of
\* both cases, "g", "\n", characters of 2, 3 and 4 UTF-8 bytes, and surrogates
PubKeyStrings ==
    {Str(n, b, l) : n \in {1, HexLen - 1, HexLen, HexLen + 1},
                    b \in {97, 70, 103}, l \in {97, 57, 10, 103, 233}}
    \cup {StrXYZ, <<8364>>, <<128512>>, <<55296>>, Str(HexLen, 97, 56320)}

FalsyValues == {JNull, JStr(<<>>), JNum(0), JBool(FALSE), JArr(<<>>), JObj(<<>>)}

PubKeyValues ==
    FalsyValues
    \cup {JStr(s) : s \in PubKeyStrings}
    \cup {JNum(5), JBool(TRUE), JArr(<<JNum(1)>>), JObj(<<Pair(StrAB, JNum(1))>>),
          JArr([k \in 1..HexLen |-> JNum(1)])}

Output(v) == JObj(<<Pair(KeyTxPubKey, v)>>)

OutputElems == {JObj(<<>>), JNum(5), JStr(StrAB)} \cup {Output(v) : v \in PubKeyValues}

\* the elements the longer "outputs" arrays are built from
OutputElemsCore ==
    {JObj(<<>>), JNum(5), Output(JNum(0)), Output(JNum(5)), Output(JArr(<<JNum(1)>>)),
     Output(JStr(Valid64)), Output(JStr(Mixed64)), Output(JStr(StrXYZ))}

Transaction(v) == JObj(<<Pair(KeySpentOutputs, v)>>)

TransactionElems ==
    {JObj(<<>>), JObj(<<Pair(StrAB, JNum(1))>>), JNum(5), JStr(StrAB),
     JStr(<<120>> \o KeySpentOutputs), JArr(<<JStr(KeySpentOutputs)>>),
     Transaction(JArr(<<>>)), Transaction(JArr(<<JNum(1), JNum(2), JNum(3)>>)),
     Transaction(JObj(<<Pair(StrAB, JNum(1))>>)), Transaction(JStr(StrAB)),
     Transaction(JNum(5)), Transaction(JBool(TRUE)), Transaction(JNull)}

\* the elements the longer "transactions" arrays are built from
TransactionElemsCore ==
    {JObj(<<>>), JNum(5), JStr(<<120>> \o KeySpentOutputs),
     Transaction(JArr(<<JNum(1), JNum(2), JNum(3)>>)), Transaction(JStr(StrAB)),
     Transaction(JNum(5))}

\* values of "outputs" / "transactions" that are not arrays
NotArrays ==
    {JNull, JNum(5), JStr(StrAB), JObj(<<>>),
     JObj(<<Pair(StrAB, JNum(1))>>), JObj(<<Pair(KeySpentOutputs, JNum(1))>>)}

OutputsValues ==
    {JArr(a) : a \in SeqsUpTo(OutputElemsCore, MaxItems)}
    \cup {JArr(<<e>>) : e \in OutputElems} \cup NotArrays

TransactionsValues ==
    {JArr(a) : a \in SeqsUpTo(TransactionElemsCore, MaxItems)}
    \cup {JArr(<<e>>) : e \in TransactionElems} \cup NotArrays

\* documents that carry both keys are built from fewer elements
OutputsFew ==
    {JArr(a) : a \in SeqsUpTo({Output(JStr(Valid64)), JObj(<<>>)}, MaxItems)}
    \cup {JArr(<<Output(JNum(5))>>), JArr(<<Output(JStr(StrXYZ))>>)}
TransactionsFew ==
    {JArr(a) : a \in SeqsUpTo({JObj(<<>>), Transaction(JNum(5))}, MaxItems)}
    \cup {JArr(<<Transaction(JArr(<<JNum(1)>>))>>), JNum(5)}

Documents ==
    {JObj(<<Pair(KeyOutputs, o)>>) : o \in OutputsValues}
    \cup {JObj(<<Pair(KeyTransactions, x)>>) : x \in TransactionsValues}
    \cup {JObj(<<Pair(KeyOutputs, o), Pair(KeyTransactions, x)>>) :
              o \in OutputsFew, x \in TransactionsFew}
    \cup {JObj(<<Pair(KeyTransactions, x), Pair(StrAB, JNum(1)), Pair(KeyOutputs, o)>>) :
              o \in OutputsFew, x \in TransactionsFew}
    \cup {JObj(<<>>), JObj(<<Pair(StrAB, JNum(1))>>),
          JArr(<<>>), JArr(<<JNum(1)>>), JArr(<<JStr(KeyOutputs)>>),
          JArr(<<JStr(KeyTransactions)>>),
          JStr(<<>>), JStr(StrAB), JStr(KeyOutputs), JStr(<<120>> \o KeyTransactions),
          JNum(0), JNum(5), JBool(TRUE), JBool(FALSE), JNull}

Inputs == Documents \cup {Malformed}

\* d without the key k
WithoutKey(d, k) == JObj(SelectSeq(d.m, LAMBDA p : p.k # k))

HasBothKeys(d) == d.t = "obj" /\ HasKey(d.m, KeyOutputs) /\ HasKey(d.m, KeyTransactions)

NoRun == [stdin |-> Unbound, out |-> <<>>, exitCode |-> <<>>]

(***************************************************************************)
(* The run.  pc is the position in the script; exitCode is <<>> while the  *)
(* process runs and <<status>> once it has exited.                         *)
(***************************************************************************)
Init ==
    /\ stdin \in Inputs
    /\ data = Unbound
    /\ pc = "load"
    /\ i = 0
    /\ out = <<>>
    /\ exc = ""
    /\ exitCode = <<>>
    /\ run = 1
    /\ prev = NoRun

\* data = json.load(sys.stdin)
Load ==
    /\ pc = "load"
    /\ IF stdin = Malformed
       THEN /\ pc' = "except"
            /\ exc' = "JSONDecodeError"
            /\ UNCHANGED data
       ELSE /\ pc' = "dispatch"
            /\ data' = stdin
            /\ UNCHANGED exc
    /\ UNCHANGED <<stdin, i, out, exitCode, run, prev>>

\* the if / elif chain up to the loop it selects
Dispatch ==
    /\ pc = "dispatch"
    /\ LET sel == Selected(data) IN
       IF sel.raise # ""
       THEN pc' = "except" /\ exc' = sel.raise /\ UNCHANGED out
       ELSE IF sel.val = "none"
       THEN pc' = "tail" /\ UNCHANGED <<exc, out>>
       ELSE LET list == PyGetItem(data, SelectedKey(data)) IN
            IF list.raise # ""
            THEN pc' = "except" /\ exc' = list.raise /\ UNCHANGED out
            ELSE LET n == PyLen(list.val) IN
                 IF n.raise # ""
                 THEN pc' = "except" /\ exc' = n.raise /\ UNCHANGED out
                 ELSE /\ out' = Append(out, IF sel.val = "outputs"
                                            THEN L_CheckOutputs(n.val)
                                            ELSE L_CheckTransactions(n.val))
                      /\ pc' = IF n.val = 0 THEN "tail" ELSE sel.val
                      /\ UNCHANGED exc
    /\ i' = 0
    /\ UNCHANGED <<stdin, data, exitCode, run, prev>>

\* the items the running loop enumerates
Items == PyIter(PyGetItem(data, SelectedKey(data)).val)

\* Apply with sys.exit(1) caught by the handler, as "except BaseException"
\* or a bare "except" would catch it
Apply_CaughtExit(step) ==
    /\ out' = out \o step.lines
    /\ CASE step.end = "next" ->
                /\ i' = i + 1
                /\ pc' = IF i + 1 = Len(Items) THEN "tail" ELSE pc
                /\ UNCHANGED <<exc, exitCode>>
         [] step.end = "exit" ->
                /\ pc' = "except"
                /\ exc' = "SystemExit"
                /\ UNCHANGED <<i, exitCode>>
         [] step.end = "raise" ->
                /\ pc' = "except"
                /\ exc' = step.exc
                /\ UNCHANGED <<i, exitCode>>
    /\ UNCHANGED <<stdin, data, run, prev>>

\* what an iteration does to the run
Apply(step) ==
    /\ out' = out \o step.lines
    /\ CASE step.end = "next" ->
                /\ i' = i + 1
                /\ pc' = IF i + 1 = Len(Items) THEN "tail" ELSE pc
                /\ UNCHANGED <<exc, exitCode>>
         [] step.end = "exit" ->
                /\ pc' = "exited"
                /\ exitCode' = <<1>>
                /\ UNCHANGED <<i, exc>>
         [] step.end = "raise" ->
                /\ pc' = "except"
                /\ exc' = step.exc
                /\ UNCHANGED <<i, exitCode>>
    /\ UNCHANGED <<stdin, data, run, prev>>

\* for i, out in enumerate(data['outputs']): one iteration
CheckOutput ==
    /\ pc = "outputs"
    /\ Apply(OutputStep(i, Items[i + 1]))

\* for i, tx in enumerate(data['transactions']): one iteration
CheckTransaction ==
    /\ pc = "transactions"
    /\ Apply(TransactionStep(i, Items[i + 1]))

\* print("Validation Successful"), and the script ends
Success ==
    /\ pc = "tail"
    /\ out' = Append(out, L_Success)
    /\ pc' = "exited"
    /\ exitCode' = <<0>>
    /\ UNCHANGED <<stdin, data, i, exc, run, prev>>

\* Except without its sys.exit(1): the script runs off its end
Except_NoExit ==
    /\ pc = "except"
    /\ out' = Append(out, L_ValidationError(exc))
    /\ pc' = "exited"
    /\ exitCode' = <<0>>
    /\ UNCHANGED <<stdin, data, i, exc, run, prev>>

\* except Exception as e: print(...); sys.exit(1)
Except ==
    /\ pc = "except"
    /\ out' = Append(out, L_ValidationError(exc))
    /\ pc' = "exited"
    /\ exitCode' = <<1>>
    /\ UNCHANGED <<stdin, data, i, exc, run, prev>>

\* The script is run a second time, on the document of the first run with
\* the key "transactions" taken out; the first run's outcome is kept in prev.
\* Nothing of the first process is left in the second.
Rerun ==
    /\ pc = "exited"
    /\ run = 1
    /\ HasBothKeys(stdin)
    /\ prev' = [stdin |-> stdin, out |-> out, exitCode |-> exitCode]
    /\ stdin' = WithoutKey(stdin, KeyTransactions)
    /\ data' = Unbound
    /\ pc' = "load"
    /\ i' = 0
    /\ out' = <<>>
    /\ exc' = ""
    /\ exitCode' = <<>>
    /\ run' = 2

Next ==
    \/ Load
    \/ Dispatch
    \/ CheckOutput
    \/ CheckTransaction
    \/ Success
    \/ Except
    \/ Rerun

Spec == Init /\ [][Next]_vars

TypeOK ==
    /\ pc \in {"load", "dispatch", "outputs", "transactions", "tail", "except", "exited"}
    /\ i \in 0..(MaxItems + 1)
    /\ exitCode \in {<<>>, <<0>>, <<1>>}
    /\ run \in {1, 2}

(***************************************************************************)
(* Vocabulary of the properties.                                           *)
(***************************************************************************)
Exited == pc = "exited"
LastLine == out[Len(out)]

\* exactly 64 characters, every one in [0-9a-fA-F]
IsHex64(s) == Len(s) = HexLen /\ \A k \in 1..Len(s) : IsHexChar(s[k])

IsItemOk(l) == l.text \in {L_ValidKey(0, JNull).text, L_HasSpent(0, 0).text}
IsItemError(l) ==
    l.text \in {L_MissingKey(0).text, L_InvalidKey(0, JNull, 0).text, L_MissingSpent(0).text}
IsProgress(l) ==
    IsItemOk(l) \/ l.text \in {L_CheckOutputs(0).text, L_CheckTransactions(0).text}
IsDiagnostic(l) ==
    IsItemError(l) \/ l.text \in {L_HexRepr(<<>>).text, L_ValidationError("").text}
IsTransactionLine(l) ==
    l.text \in {L_CheckTransactions(0).text, L_MissingSpent(0).text, L_HasSpent(0, 0).text}

OkLines == {j \in 1..Len(out) : IsItemOk(out[j])}
ErrorLines == {j \in 1..Len(out) : IsItemError(out[j])}
DiagnosticLines == {j \in 1..Len(out) : IsDiagnostic(out[j])}

\* the document is an object whose "outputs" is an array
OutputsArray(d) ==
    d.t = "obj" /\ HasKey(d.m, KeyOutputs) /\ Lookup(d.m, KeyOutputs).t = "arr"
\* the document is an object without "outputs" whose "transactions" is an array
TransactionsArray(d) ==
    /\ d.t = "obj"
    /\ ~HasKey(d.m, KeyOutputs)
    /\ HasKey(d.m, KeyTransactions)
    /\ Lookup(d.m, KeyTransactions).t = "arr"

HasPubKey(el) == el.t = "obj" /\ HasKey(el.m, KeyTxPubKey)
PubKeyOf(el) == Lookup(el.m, KeyTxPubKey)
\* an output whose tx_pub_key is 64 hexadecimal digits
ValidOutput(el) ==
    HasPubKey(el) /\ PubKeyOf(el).t = "str" /\ IsHex64(PubKeyOf(el).s)
\* an output record whose tx_pub_key is absent, empty or otherwise falsy
MissingOutput(el) ==
    el.t = "obj" /\ (HasKey(el.m, KeyTxPubKey) => PubKeyOf(el) \in FalsyValues)
\* an output record whose tx_pub_key is present and truthy and is not 64
\* hexadecimal digits
InvalidOutput(el) ==
    /\ HasPubKey(el)
    /\ PubKeyOf(el) \notin FalsyValues
    /\ ~(PubKeyOf(el).t = "str" /\ IsHex64(PubKeyOf(el).s))

HasSpent(el) == el.t = "obj" /\ HasKey(el.m, KeySpentOutputs)
SpentOf(el) == Lookup(el.m, KeySpentOutputs)
\* a transaction record whose spent_outputs is a value with an element count
CountedTransaction(el) == HasSpent(el) /\ SpentOf(el).t \in {"arr", "obj", "str"}
MissingTransaction(el) == el.t = "obj" /\ ~HasKey(el.m, KeySpentOutputs)

(***************************************************************************)
(* Properties.                                                             *)
(***************************************************************************)

\* C1: validate_hex(s, 64) is true exactly for the strings of 64 characters
\* that are all in [0-9a-fA-F], and false for every other string, a string of
\* 64 characters that ends in a newline included.  Stated of the string the
\* loop over "outputs" is about to pass to validate_hex.
C1_HexPredicate ==
    (pc = "outputs" /\ HasPubKey(Items[i + 1]) /\ PubKeyOf(Items[i + 1]).t = "str")
        => validate_hex(PubKeyOf(Items[i + 1]), HexLen) = Ok(IsHex64(PubKeyOf(Items[i + 1]).s))

\* C4: for a well-formed document whose top-level value has neither key
\* (an object without them, an array, a string, a number, a boolean, null)
\* the run prints "Validation Successful" and nothing else and exits with 0.
C4_NoKeyNoValidation ==
    (Exited /\ stdin # Malformed
        /\ ~(stdin.t = "obj" /\ (HasKey(stdin.m, KeyOutputs) \/ HasKey(stdin.m, KeyTransactions))))
        => (out = <<L_Success>> /\ exitCode = <<0>>)

\* C6: when the first output that is not valid is at index k and its
\* tx_pub_key is present and truthy but not 64 hexadecimal digits (a string or
\* not), the run prints the invalid-field line with k, the value and its
\* length, then the lowercase hex dump of its UTF-8 bytes, and exits with 1.
C6_InvalidFieldReported ==
    (Exited /\ OutputsArray(stdin)) =>
        LET a == Lookup(stdin.m, KeyOutputs).a IN
        \A k \in 1..Len(a) :
            ((\A j \in 1..(k - 1) : ValidOutput(a[j])) /\ InvalidOutput(a[k])) =>
                /\ exitCode = <<1>>
                /\ \E j \in 1..Len(out) :
                       /\ out[j].text = L_InvalidKey(0, JNull, 0).text
                       /\ out[j].i = k - 1
                       /\ out[j].pubkey = PubKeyOf(a[k])
                       /\ PubKeyOf(a[k]).t = "str" =>
                              /\ out[j].n = Len(PubKeyOf(a[k]).s)
                              /\ j < Len(out)
                              /\ out[j + 1] = L_HexRepr(BytesHex(Utf8(PubKeyOf(a[k]).s)))

\* C7: a "transactions" array whose elements all carry the key spent_outputs,
\* whatever value it holds, passes: one "has spent_outputs" line per element,
\* in order, then "Validation Successful", and exit code 0.
C7_KeyPresenceOnly ==
    (Exited /\ TransactionsArray(stdin)) =>
        LET a == Lookup(stdin.m, KeyTransactions).a IN
        (\A j \in 1..Len(a) : HasSpent(a[j])) =>
            /\ exitCode = <<0>>
            /\ Len(out) = Len(a) + 2
            /\ LastLine = L_Success
            /\ \A j \in 1..Len(a) :
                   out[j + 1].text = L_HasSpent(0, 0).text /\ out[j + 1].i = j - 1

\* the run is at a statement that can execute
Ready ==
    /\ pc \in {"load", "dispatch", "outputs", "transactions", "tail", "except"}
    /\ pc \in {"outputs", "transactions"} => i < Len(Items)

\* C2: a run goes on until it exits, and exits with 0 or 1: with 0 exactly
\* when it ends with "Validation Successful" after every item of the selected
\* list passed (or with no list selected) and no error line; with 1 after a
\* missing-field or invalid-field line, a parse error or an exception.
C2_ExitCodes ==
    /\ exitCode \in {<<>>, <<0>>, <<1>>}
    /\ Exited <=> exitCode # <<>>
    /\ ~Exited => Ready
    /\ exitCode = <<0>> <=>
           (Exited /\ Len(out) > 0 /\ LastLine = L_Success /\ DiagnosticLines = {})
    /\ exitCode = <<0>> =>
           \/ Selected(data).val = "none" /\ out = <<L_Success>>
           \/ Selected(data).val # "none" /\ Cardinality(OkLines) = Len(Items)
                  /\ Len(out) = Len(Items) + 2
    /\ (Exited /\ (ErrorLines # {} \/ exc # "" \/ stdin = Malformed)) => exitCode = <<1>>

\* a run that printed a success line for an item and then exited with 1
\* from the exception handler
C2_Witness ==
    Exited /\ exitCode = <<1>> /\ exc # "" /\ OkLines # {} /\ LastLine = L_ValidationError(exc)

\* C3: with both keys in the document only "outputs" is checked: no line about
\* transactions is printed, and the printed lines and the exit code are those
\* of the run on the same document without the key "transactions".
C3_OutputsFirst ==
    /\ HasBothKeys(stdin) => \A j \in 1..Len(out) : ~IsTransactionLine(out[j])
    /\ run = 2 =>
           /\ HasBothKeys(prev.stdin)
           /\ stdin = WithoutKey(prev.stdin, KeyTransactions)
           /\ Exited => (out = prev.out /\ exitCode = prev.exitCode)

\* both runs passed two outputs, and the first run's "transactions" held a
\* record without spent_outputs
C3_Witness ==
    /\ run = 2
    /\ Exited
    /\ exitCode = <<0>>
    /\ Len(out) = 4
    /\ Lookup(prev.stdin.m, KeyTransactions).t = "arr"
    /\ \E j \in 1..Len(Lookup(prev.stdin.m, KeyTransactions).a) :
           MissingTransaction(Lookup(prev.stdin.m, KeyTransactions).a[j])

C9_FailFast ==
    /\ \A j \in OkLines :
           /\ j >= 2
           /\ OkLines \cap (1..j) = 2..j
           /\ out[j].i = j - 2
           /\ out[j].text = L_ValidKey(0, JNull).text =>
                  out[j] = L_ValidKey(j - 2, PubKeyOf(Items[j - 1]))
           /\ out[j].text = L_HasSpent(0, 0).text => HasSpent(Items[j - 1])
    /\ Cardinality(ErrorLines) <= 1
    /\ ((Exited /\ exitCode = <<1>>) \/ pc = "except" \/ ErrorLines # {}) =>
           /\ OkLines = 2..(i + 1)
           /\ \A j \in 1..Len(out) : out[j] # L_Success
           /\ \A e \in ErrorLines : e = i + 2 /\ out[e].i = i
           /\ pc \in {"exited", "except"}

\* the item at index 1 of three failed: one success line, then its error
C9_Witness ==
    /\ Exited
    /\ exitCode = <<1>>
    /\ i = 1
    /\ Len(Items) = 3
    /\ ErrorLines = {3}
    /\ OkLines = {2}

\* C10 as first stated: a failing run prints exactly one diagnostic line,
\* after its progress lines, and exits with 1.
C10_SingleDiagnosticLine ==
    (Exited /\ exitCode = <<1>>) =>
        /\ Cardinality(DiagnosticLines) = 1
        /\ IsDiagnostic(LastLine)

\* C10, amended: a failing run prints one diagnostic line or two, after its
\* progress lines, and exits with 1.  An exception (a parse error included) is
\* reported by the handler as the last line, "Validation Error"; a missing
\* field is reported where it is found, as one line, and not by the handler;
\* an invalid tx_pub_key is reported where it is found, as the error line and
\* then a second line: the hex dump, or the handler's line when the dump raises.
C10_Diagnostics ==
    Exited =>
        LET n == Cardinality(DiagnosticLines) IN
        /\ exitCode = <<1>> <=> n > 0
        /\ n \in {0, 1, 2}
        /\ DiagnosticLines = (Len(out) - n + 1)..Len(out)
        /\ \A j \in 1..(Len(out) - n) : IsProgress(out[j]) \/ out[j] = L_Success
        /\ n > 0 => \A j \in 1..(Len(out) - n) : IsProgress(out[j])
        /\ exc # "" <=> (n > 0 /\ LastLine = L_ValidationError(exc))
        /\ (n = 1 /\ exc = "") =>
               LastLine.text \in {L_MissingKey(0).text, L_MissingSpent(0).text}
        /\ n = 2 =>
               /\ out[Len(out) - 1].text = L_InvalidKey(0, JNull, 0).text
               /\ exc = "" => LastLine = L_HexRepr(BytesHex(Utf8(out[Len(out) - 1].pubkey.s)))

\* an invalid tx_pub_key at index 1: a "Checking" line, a success line, the
\* error line and the hex dump
C10_Witness ==
    /\ Exited
    /\ exitCode = <<1>>
    /\ Len(out) = 4
    /\ IsItemOk(out[2])
    /\ out[3].text = L_InvalidKey(0, JNull, 0).text
    /\ out[4].text = L_HexRepr(<<>>).text

=============================================================================
